---- MODULE Spec2Model ----
(***************************************************************************)
(* Model of the DevOps automation tool (src/main.py): the repository       *)
(* analysis (DevOpsAITool.analyze_repository), the orchestration prompt's  *)
(* application name (_create_k8s_prompt), the two response cleaners        *)
(* (_clean_dockerfile_response, _clean_k8s_response) and the manifest      *)
(* split loop of main.                                                     *)
(*                                                                         *)
(* Text is a sequence of one-character strings.  A TLA+ string literal     *)
(* cannot hold the backtick, so that character is written BQ.              *)
(***************************************************************************)
EXTENDS Integers, Sequences, FiniteSets, TLC

VARIABLES
    pc,             \* position of the program
    i,              \* index of the loop in progress (1-based)
    dir,            \* the files found present at the repository root
    pkgjson,        \* content read from package.json: <<>> or <<content>>
    reqtxt,         \* content read from requirements.txt: <<>> or <<content>>
    analysis,       \* the analysis dict of analyze_repository
    warnings,       \* the warnings printed so far
    prompt,         \* what _create_k8s_prompt embedded: <<>> or <<record>>
    kind,           \* which artifact the response is for
    raw,            \* the text handed to the cleaner
    lines,          \* response.split('\n') after the fences are removed
    yaml_started,   \* _clean_k8s_response's flag
    cleaned_lines,  \* the lines kept so far
    result,         \* the cleaner's return value: <<>> or <<text>>
    manifests,      \* k8s_content.split('---')
    saved,          \* the (name, content) pairs handed to save_generated_config
    first           \* the first result, when the cleaner is applied again: <<>> or <<text>>

vars == <<pc, i, dir, pkgjson, reqtxt, analysis, warnings, prompt,
          kind, raw, lines, yaml_started, cleaned_lines, result, manifests, saved,
          first>>

analyzeVars == <<dir, pkgjson, reqtxt, analysis, warnings, prompt>>
extractVars ==
    <<kind, raw, lines, yaml_started, cleaned_lines, result, manifests, saved, first>>

----------------------------------------------------------------------------
(* Bounds of the model *)

\* at most this many of the nine package files are present
MaxMarkers == 2
\* at most this many of the ten common files are present
MaxCommon == 1
\* a requirements.txt has at most this many lines
MaxReqLines == 2
\* a model response has at most this many lines
MaxLines == 3

----------------------------------------------------------------------------
(* Python's str methods, on sequences of characters *)

BQ == "bq"

Whitespace == {" ", "\t", "\n", "\r"}

\* str.startswith
StartsWith(s, p) == Len(s) >= Len(p) /\ SubSeq(s, 1, Len(p)) = p

\* str.replace(old, new): the leftmost occurrences, not overlapping
RECURSIVE Replace(_, _, _)
Replace(s, old, new) ==
    IF s = <<>> THEN <<>>
    ELSE IF StartsWith(s, old)
         THEN new \o Replace(SubSeq(s, Len(old) + 1, Len(s)), old, new)
         ELSE <<Head(s)>> \o Replace(Tail(s), old, new)

RECURSIVE SplitFrom(_, _, _)
SplitFrom(s, sep, cur) ==
    IF s = <<>> THEN <<cur>>
    ELSE IF StartsWith(s, sep)
         THEN <<cur>> \o SplitFrom(SubSeq(s, Len(sep) + 1, Len(s)), sep, <<>>)
         ELSE SplitFrom(Tail(s), sep, Append(cur, Head(s)))

\* str.split(sep)
Split(s, sep) == SplitFrom(s, sep, <<>>)

RECURSIVE LStrip(_)
LStrip(s) == IF s # <<>> /\ Head(s) \in Whitespace THEN LStrip(Tail(s)) ELSE s

RECURSIVE RStrip(_)
RStrip(s) ==
    IF s # <<>> /\ s[Len(s)] \in Whitespace THEN RStrip(SubSeq(s, 1, Len(s) - 1)) ELSE s

\* str.strip()
Strip(s) == RStrip(LStrip(s))

RECURSIVE Join(_, _)
\* sep.join(parts)
Join(parts, sep) ==
    IF parts = <<>> THEN <<>>
    ELSE IF Len(parts) = 1 THEN parts[1]
    ELSE parts[1] \o sep \o Join(Tail(parts), sep)

LowerChar(c) ==
    CASE c = "A" -> "a" [] c = "D" -> "d" [] c = "F" -> "f" [] c = "I" -> "i"
      [] c = "M" -> "m" [] c = "P" -> "p" [] c = "W" -> "w"
      [] OTHER -> c

\* str.lower()
Lower(s) == [k \in 1..Len(s) |-> LowerChar(s[k])]

\* the `in` operator on two strings
Contains(s, p) == \E k \in 0..(Len(s) - Len(p)) : SubSeq(s, k + 1, k + Len(p)) = p

\* the `in` operator on a list
InList(x, l) == \E k \in 1..Len(l) : l[k] = x

----------------------------------------------------------------------------
(* analyze_repository: tables *)

package_files == <<
    [file |-> "package.json",     lang |-> "node"],
    [file |-> "requirements.txt", lang |-> "python"],
    [file |-> "Pipfile",          lang |-> "python"],
    [file |-> "setup.py",         lang |-> "python"],
    [file |-> "pom.xml",          lang |-> "java"],
    [file |-> "build.gradle",     lang |-> "java"],
    [file |-> "Cargo.toml",       lang |-> "rust"],
    [file |-> "go.mod",           lang |-> "go"],
    [file |-> "composer.json",    lang |-> "php"] >>

PackageFileNames == {package_files[k].file : k \in 1..Len(package_files)}

node_web_frameworks ==
    <<"express", "react", "vue", "angular", "next", "nuxt", "fastify", "koa">>

python_web_frameworks == <<
    <<"f","l","a","s","k">>,
    <<"d","j","a","n","g","o">>,
    <<"f","a","s","t","a","p","i">>,
    <<"t","o","r","n","a","d","o">>,
    <<"p","y","r","a","m","i","d">>,
    <<"b","o","t","t","l","e">> >>

fastapi == <<"f","a","s","t","a","p","i">>

common_files == <<"Dockerfile", "docker-compose.yml", ".dockerignore",
                  "README.md", "LICENSE", ".gitignore",
                  "main.py", "app.py", "server.js", "index.js">>

CommonFileNames == {common_files[k] : k \in 1..Len(common_files)}

entry_files == <<"main.py", "app.py", "server.js", "index.js">>

\* mutant: the profile starts without a port
InitialAnalysisNoPort == [
    languages        |-> <<>>,
    frameworks       |-> <<>>,
    package_managers |-> {},
    entry_points     |-> <<>>,
    dependencies     |-> [node |-> <<>>, python |-> <<>>],
    structure        |-> {},
    is_web_app       |-> FALSE,
    default_port     |-> 0 ]

\* the analysis dict as analyze_repository creates it
InitialAnalysis == [
    languages        |-> <<>>,
    frameworks       |-> <<>>,
    package_managers |-> {},
    entry_points     |-> <<>>,
    dependencies     |-> [node |-> <<>>, python |-> <<>>],
    structure        |-> {},
    is_web_app       |-> FALSE,
    default_port     |-> 3000 ]

----------------------------------------------------------------------------
(* analyze_repository: the contents a manifest can have *)

\* a JSON value of a field: t is "absent", "null", "num" or "str"
J(t, v) == [t |-> t, v |-> v]
Absent == J("absent", <<>>)
Str(v) == J("str", v)

\* a package.json that json.load turns into a dict
PkgObj(name, main, scripts, deps) ==
    [parse |-> "ok", isobj |-> TRUE, name |-> name, main |-> main,
     scripts |-> scripts, deps |-> deps]

NoDeps == [t |-> "absent", keys |-> <<>>]
Deps(keys) == [t |-> "dict", keys |-> keys]

PackageJsonSamples == {
    \* not JSON at all
    [parse |-> "error", isobj |-> FALSE, name |-> Absent, main |-> Absent,
     scripts |-> <<>>, deps |-> NoDeps],
    \* []
    [parse |-> "ok", isobj |-> FALSE, name |-> Absent, main |-> Absent,
     scripts |-> <<>>, deps |-> NoDeps],
    \* {}
    PkgObj(Absent, Absent, <<>>, NoDeps),
    \* {"name": "My_Web App", "main": "server.js", "scripts": {"start": ..},
    \*  "dependencies": {"lodash": .., "express": ..}}
    PkgObj(Str(<<"M","y","_","W","e","b"," ","A","p","p">>),
           Str(<<"s","e","r","v","e","r",".","j","s">>),
           <<"start">>, Deps(<<"lodash", "express">>)),
    \* {"name": "api", "dependencies": {"lodash": ..}}
    PkgObj(Str(<<"a","p","i">>), Absent, <<>>, Deps(<<"lodash">>)),
    \* {"name": null, "dependencies": {"react": ..}}
    PkgObj(J("null", <<>>), Absent, <<>>, Deps(<<"react">>)),
    \* {"name": 5}
    PkgObj(J("num", <<"5">>), Absent, <<>>, NoDeps),
    \* {"name": "", "dependencies": ["express"]}
    PkgObj(Str(<<>>), Absent, <<>>, [t |-> "list", keys |-> <<"express">>])
}

ReqLineSamples == {
    <<"f","a","s","t","a","p","i","=","=","0",".","1">>,
    <<" ","F","l","a","s","k","=","=","2">>,
    <<"#","f","l","a","s","k">>,
    <<" "," ">>,
    <<"f","l","a","s","k",">","=","2">>
}

\* the lines of a requirements.txt (each without its line terminator, which
\* strip() removes and startswith('#') does not read)
ReqFiles == UNION {[1..n -> ReqLineSamples] : n \in 0..MaxReqLines}

RequirementsSamples ==
    {[readable |-> TRUE, lines |-> l] : l \in ReqFiles}
    \cup {[readable |-> FALSE, lines |-> <<>>]}

----------------------------------------------------------------------------
(* analyze_repository: the loop over package_files *)

\* analysis['languages'].append(lang)
AppendLanguage(langs, lang) == Append(langs, lang)

\* the two statements run for every package file that exists
RecordPresent(an, k) ==
    [an EXCEPT !.languages = AppendLanguage(@, package_files[k].lang),
               !.package_managers = @ \cup {package_files[k].file}]

\* whether the try block of the package.json branch raises
PackageJsonRaises(c) ==
    \/ c.parse = "error"                 \* json.load
    \/ ~c.isobj                          \* pkg_json.get on a non-dict
    \/ c.deps.t \in {"list", "null"}     \* .keys() on a non-dict

\* pkg_json.get('dependencies', {})
DepsOf(c) == IF c.deps.t = "dict" THEN c.deps.keys ELSE <<>>

\* mutant: all() in place of any()
NodeIsWebAll(c) ==
    \A k \in 1..Len(node_web_frameworks) : InList(node_web_frameworks[k], DepsOf(c))

\* any(fw in deps for fw in web_frameworks)
NodeIsWeb(c) ==
    \E k \in 1..Len(node_web_frameworks) : InList(node_web_frameworks[k], DepsOf(c))

\* the port the package.json branch sets on a match
NodePort == 3000

\* the try block of the package.json branch, when it does not raise
ParsePackageJson(an, c) ==
    LET summary == [
            name         |-> IF c.name.t = "absent"
                             THEN Str(<<"u","n","k","n","o","w","n">>) ELSE c.name,
            main         |-> IF c.main.t = "absent"
                             THEN Str(<<"i","n","d","e","x",".","j","s">>) ELSE c.main,
            scripts      |-> c.scripts,
            dependencies |-> DepsOf(c) ]
        an1 == [an EXCEPT !.dependencies.node = <<summary>>]
    IN  IF NodeIsWeb(c)
        THEN [an1 EXCEPT !.is_web_app = TRUE, !.default_port = NodePort]
        ELSE an1

\* mutant: the line is split without being stripped
ReqNameUnstripped(line) == Split(line, <<"=","=">>)[1]

\* the name taken from one line of requirements.txt
ReqName(line) == Split(Strip(line), <<"=","=">>)[1]

\* whether the comprehension keeps the line
ReqKeeps(line) == Strip(line) # <<>> /\ ~StartsWith(line, <<"#">>)

RECURSIVE Reqs(_)
\* [line.strip().split('==')[0] for line in f if line.strip() and not line.startswith('#')]
Reqs(ls) ==
    IF ls = <<>> THEN <<>>
    ELSE (IF ReqKeeps(Head(ls)) THEN <<ReqName(Head(ls))>> ELSE <<>>) \o Reqs(Tail(ls))

\* [r.lower() for r in reqs]
LowerAll(reqs) == [k \in 1..Len(reqs) |-> Lower(reqs[k])]

\* any(fw.lower() in [r.lower() for r in reqs] for fw in web_frameworks)
PythonIsWeb(reqs) ==
    \E k \in 1..Len(python_web_frameworks) :
        InList(Lower(python_web_frameworks[k]), LowerAll(reqs))

\* mutant: a Python match always sets the Node port
PythonPortNode(reqs) == 3000

\* 8000 if 'fastapi' in [r.lower() for r in reqs] else 5000
PythonPort(reqs) == IF InList(fastapi, LowerAll(reqs)) THEN 8000 ELSE 5000

\* the try block of the requirements.txt branch, when it does not raise
ParseRequirements(an, c) ==
    LET reqs == Reqs(c.lines)
        an1  == [an EXCEPT !.dependencies.python = <<reqs>>]
    IN  IF PythonIsWeb(reqs)
        THEN [an1 EXCEPT !.is_web_app = TRUE, !.default_port = PythonPort(reqs)]
        ELSE an1

\* mutant: the exception is swallowed without a message
ExceptSilent(ws, file) == ws

\* except Exception as e: print(f"Warning: Could not parse ...: {e}")
ExceptWarning(ws, file) == Append(ws, file)

\* the program's position after iteration k of the loop over package_files
AfterProbe(k) == IF k = Len(package_files) THEN "common" ELSE "probe"

MarkersPresent == dir \cap PackageFileNames

\* repo_path.exists() is false: FileNotFoundError
RaiseNotFound ==
    /\ pc = "start"
    /\ pc' = "raised"
    /\ UNCHANGED <<i, analyzeVars, extractVars>>

\* repo_path exists: analysis is created and the loop starts
Start ==
    /\ pc = "start"
    /\ pc' = "probe"
    /\ i' = 1
    /\ analysis' = InitialAnalysis
    /\ UNCHANGED <<dir, pkgjson, reqtxt, warnings, prompt, extractVars>>

\* file_path.exists() is false
ProbeAbsent ==
    /\ pc = "probe"
    /\ pc' = AfterProbe(i)
    /\ i' = i + 1
    /\ UNCHANGED <<analyzeVars, extractVars>>

\* a package file other than the two that are parsed
ProbePresent ==
    /\ pc = "probe"
    /\ package_files[i].file \notin {"package.json", "requirements.txt"}
    /\ Cardinality(MarkersPresent) < MaxMarkers
    /\ dir' = dir \cup {package_files[i].file}
    /\ analysis' = RecordPresent(analysis, i)
    /\ pc' = AfterProbe(i)
    /\ i' = i + 1
    /\ UNCHANGED <<pkgjson, reqtxt, warnings, prompt, extractVars>>

\* package.json exists: the branch of lines 101-120
ProbePackageJson ==
    /\ pc = "probe"
    /\ package_files[i].file = "package.json"
    /\ Cardinality(MarkersPresent) < MaxMarkers
    /\ \E c \in PackageJsonSamples :
        /\ pkgjson' = <<c>>
        /\ IF PackageJsonRaises(c)
           THEN /\ analysis' = RecordPresent(analysis, i)
                /\ warnings' = ExceptWarning(warnings, "package.json")
           ELSE /\ analysis' = ParsePackageJson(RecordPresent(analysis, i), c)
                /\ warnings' = warnings
    /\ dir' = dir \cup {"package.json"}
    /\ pc' = AfterProbe(i)
    /\ i' = i + 1
    /\ UNCHANGED <<reqtxt, prompt, extractVars>>

\* requirements.txt exists: the branch of lines 122-135
ProbeRequirements ==
    /\ pc = "probe"
    /\ package_files[i].file = "requirements.txt"
    /\ Cardinality(MarkersPresent) < MaxMarkers
    /\ \E c \in RequirementsSamples :
        /\ reqtxt' = <<c>>
        /\ IF ~c.readable
           THEN /\ analysis' = RecordPresent(analysis, i)
                /\ warnings' = ExceptWarning(warnings, "requirements.txt")
           ELSE /\ analysis' = ParseRequirements(RecordPresent(analysis, i), c)
                /\ warnings' = warnings
    /\ dir' = dir \cup {"requirements.txt"}
    /\ pc' = AfterProbe(i)
    /\ i' = i + 1
    /\ UNCHANGED <<pkgjson, prompt, extractVars>>

\* [f for f in files if f in present], in the order of files
RECURSIVE Present(_, _)
Present(files, present) ==
    IF files = <<>> THEN <<>>
    ELSE (IF Head(files) \in present THEN <<Head(files)>> ELSE <<>>)
         \o Present(Tail(files), present)

\* the loop over common_files and the return
ScanCommon ==
    /\ pc = "common"
    /\ \E found \in SUBSET CommonFileNames :
        /\ Cardinality(found) <= MaxCommon
        /\ dir' = dir \cup found
        /\ analysis' = [analysis EXCEPT
                !.structure = found,
                !.entry_points = SelectSeq(Present(common_files, found),
                                           LAMBDA f : InList(f, entry_files))]
    /\ pc' = "returned"
    /\ UNCHANGED <<i, pkgjson, reqtxt, warnings, prompt, extractVars>>

----------------------------------------------------------------------------
(* _create_k8s_prompt *)

myapp == <<"m","y","a","p","p">>

\* the truth value Python gives a JSON value
Truthy(j) == (j.t = "str" /\ j.v # <<>>) \/ j.t = "num"

\* analysis.get('dependencies', {}).get('node', {}).get('name')
NodeName(an) ==
    IF an.dependencies.node = <<>> THEN J("null", <<>>)
    ELSE an.dependencies.node[1].name

\* name.replace('_', '-').replace(' ', '-').lower()
NormalizeName(v) == Lower(Replace(Replace(v, <<"_">>, <<"-">>), <<" ">>, <<"-">>))

\* app_name as lines 247-249 compute it (the name is a string or falsy)
AppName(an) ==
    IF Truthy(NodeName(an)) THEN NormalizeName(NodeName(an).v) ELSE myapp

\* analysis['languages'][0] if analysis['languages'] else 'unknown'
PrimaryLang(an) == IF an.languages # <<>> THEN an.languages[1] ELSE "unknown"

\* the prompt is built from the returned analysis
CreateK8sPrompt ==
    /\ pc = "returned"
    /\ NodeName(analysis).t # "num"
    /\ prompt' = << [app_name     |-> AppName(analysis),
                     primary_lang |-> PrimaryLang(analysis),
                     is_web_app   |-> analysis.is_web_app,
                     default_port |-> analysis.default_port,
                     entry_points |-> analysis.entry_points] >>
    /\ pc' = "prompted"
    /\ UNCHANGED <<i, dir, pkgjson, reqtxt, analysis, warnings, extractVars>>

\* a truthy name that is no string has no replace method: AttributeError
CreateK8sPromptRaises ==
    /\ pc = "returned"
    /\ NodeName(analysis).t = "num"
    /\ pc' = "prompt_raised"
    /\ UNCHANGED <<i, analyzeVars, extractVars>>

----------------------------------------------------------------------------
(* The responses a model can give *)

NL == <<"\n">>
Fence == <<BQ, BQ, BQ>>
FenceDockerfile == Fence \o <<"d","o","c","k","e","r","f","i","l","e">>
FenceDocker == Fence \o <<"d","o","c","k","e","r">>
FenceYaml == Fence \o <<"y","a","m","l">>
FenceYml == Fence \o <<"y","m","l">>
Here == <<"H","e","r","e">>
This == <<"T","h","i","s">>
ApiVersion == <<"a","p","i","V","e","r","s","i","o","n",":">>
Separator == <<"-","-","-">>
KindDeployment == <<"k","i","n","d",":"," ","D","e","p","l","o","y","m","e","n","t">>
KindService == <<"k","i","n","d",":"," ","S","e","r","v","i","c","e">>
KindConfigMap == <<"k","i","n","d",":"," ","C","o","n","f","i","g","M","a","p">>
KindIngress == <<"k","i","n","d",":"," ","I","n","g","r","e","s","s">>

ResponseLineSamples == {
    <<>>,
    Here \o <<" ","i","s">>,
    This,
    FenceDockerfile,
    FenceDocker,
    Fence,
    FenceYaml,
    <<" ","F","R","O","M"," ","a">>,
    ApiVersion \o <<" ","1">>,
    Separator,
    <<" ">> \o Separator,
    KindService,
    <<BQ>> \o FenceYaml \o <<BQ, BQ>>,
    <<BQ, BQ>> \o FenceDockerfile \o <<BQ>>
}

\* the texts of one to MaxLines lines
Responses ==
    {Join(l, NL) : l \in UNION {[1..n -> ResponseLineSamples] : n \in 1..MaxLines}}

----------------------------------------------------------------------------
(* _clean_k8s_response *)

\* response.replace('```yaml', '').replace('```yml', '').replace('```', '')
RemoveK8sFences(s) ==
    Replace(Replace(Replace(s, FenceYaml, <<>>), FenceYml, <<>>), Fence, <<>>)

\* mutant: the line is tested without being stripped
IsYamlStartUnstripped(line) ==
    StartsWith(line, ApiVersion) \/ StartsWith(line, Separator)

\* line.strip().startswith('apiVersion:') or line.strip().startswith('---')
IsYamlStart(line) ==
    StartsWith(Strip(line), ApiVersion) \/ StartsWith(Strip(line), Separator)

\* lines 297-302
K8sStripFences ==
    /\ pc = "response"
    /\ kind = "k8s"
    /\ lines' = Split(RemoveK8sFences(raw), NL)
    /\ cleaned_lines' = <<>>
    /\ yaml_started' = FALSE
    /\ i' = 1
    /\ pc' = "k8s_scan"
    /\ UNCHANGED <<analyzeVars, first, kind, raw, result, manifests, saved>>

\* one iteration of the loop of lines 304-311
K8sScanLine ==
    /\ pc = "k8s_scan"
    /\ i <= Len(lines)
    /\ \/ /\ ~yaml_started
          /\ ~IsYamlStart(lines[i])
          /\ UNCHANGED <<yaml_started, cleaned_lines>>
       \/ /\ ~yaml_started
          /\ IsYamlStart(lines[i])
          /\ yaml_started' = TRUE
          /\ cleaned_lines' = Append(cleaned_lines, lines[i])
       \/ /\ yaml_started
          /\ cleaned_lines' = Append(cleaned_lines, lines[i])
          /\ UNCHANGED yaml_started
    /\ i' = i + 1
    /\ UNCHANGED <<pc, analyzeVars, first, kind, raw, lines, result, manifests, saved>>

\* return '\n'.join(cleaned_lines)
K8sReturn ==
    /\ pc = "k8s_scan"
    /\ i > Len(lines)
    /\ result' = <<Join(cleaned_lines, NL)>>
    /\ pc' = "k8s_cleaned"
    /\ UNCHANGED <<i, analyzeVars, first, kind, raw, lines, yaml_started, cleaned_lines,
                   manifests, saved>>

----------------------------------------------------------------------------
(* _clean_dockerfile_response *)

\* mutant: only the tagged delimiter is removed
RemoveDockerFencesTagged(s) == Replace(s, FenceDockerfile, <<>>)

\* response.replace('```dockerfile', '').replace('```', '').replace('```docker', '')
RemoveDockerFences(s) ==
    Replace(Replace(Replace(s, FenceDockerfile, <<>>), Fence, <<>>), FenceDocker, <<>>)

\* mutant: an empty line is kept
DockerKeepsEmpty(line) == ~StartsWith(line, Here) /\ ~StartsWith(line, This)

\* line and not line.startswith('Here') and not line.startswith('This')
DockerKeeps(line) ==
    line # <<>> /\ ~StartsWith(line, Here) /\ ~StartsWith(line, This)

\* lines 283-287
DockerStripFences ==
    /\ pc = "response"
    /\ kind = "dockerfile"
    /\ lines' = Split(RemoveDockerFences(raw), NL)
    /\ cleaned_lines' = <<>>
    /\ i' = 1
    /\ pc' = "docker_scan"
    /\ UNCHANGED <<analyzeVars, first, kind, raw, yaml_started, result, manifests, saved>>

\* one iteration of the loop of lines 287-290
DockerScanLine ==
    /\ pc = "docker_scan"
    /\ i <= Len(lines)
    /\ \/ /\ DockerKeeps(Strip(lines[i]))
          /\ cleaned_lines' = Append(cleaned_lines, Strip(lines[i]))
       \/ /\ ~DockerKeeps(Strip(lines[i]))
          /\ UNCHANGED cleaned_lines
    /\ i' = i + 1
    /\ UNCHANGED <<pc, analyzeVars, first, kind, raw, lines, yaml_started, result,
                   manifests, saved>>

\* return '\n'.join(lines)
DockerReturn ==
    /\ pc = "docker_scan"
    /\ i > Len(lines)
    /\ result' = <<Join(cleaned_lines, NL)>>
    /\ pc' = "docker_cleaned"
    /\ UNCHANGED <<i, analyzeVars, first, kind, raw, lines, yaml_started, cleaned_lines,
                   manifests, saved>>

----------------------------------------------------------------------------
(* main: the manifest split loop (lines 385-413, disabled by comments) *)

\* the if/elif chain of lines 398-406
ManifestType(manifest) ==
    IF Contains(manifest, KindDeployment) THEN "deployment"
    ELSE IF Contains(manifest, KindService) THEN "service"
    ELSE IF Contains(manifest, KindConfigMap) THEN "configmap"
    ELSE IF Contains(manifest, KindIngress) THEN "ingress"
    ELSE "unknown"

\* the index enumerate() gives the fragment at position k (1-based) of manifests
Ordinal(k) == k - 1

\* if k8s_content: the bundle is saved and split on '---'
SplitManifests ==
    /\ pc = "k8s_cleaned"
    /\ result[1] # <<>>
    /\ manifests' = Split(result[1], Separator)
    /\ i' = 1
    /\ pc' = "split"
    /\ UNCHANGED <<analyzeVars, first, kind, raw, lines, yaml_started, cleaned_lines,
                   result, saved>>

\* else: "Failed to generate Kubernetes manifests"
NoManifests ==
    /\ pc = "k8s_cleaned"
    /\ result[1] = <<>>
    /\ pc' = "failed"
    /\ UNCHANGED <<i, analyzeVars, extractVars>>

\* save_generated_config returned None for the bundle: nothing is split
BundleNotSaved ==
    /\ pc = "k8s_cleaned"
    /\ result[1] # <<>>
    /\ pc' = "done"
    /\ UNCHANGED <<i, analyzeVars, extractVars>>

\* one iteration of the loop of lines 395-411
SplitStep ==
    /\ pc = "split"
    /\ i <= Len(manifests)
    /\ \/ /\ Strip(manifests[i]) # <<>>
          /\ saved' = Append(saved, [type    |-> ManifestType(manifests[i]),
                                     ordinal |-> Ordinal(i),
                                     content |-> Strip(manifests[i])])
       \/ /\ Strip(manifests[i]) = <<>>
          /\ UNCHANGED saved
    /\ i' = i + 1
    /\ UNCHANGED <<pc, analyzeVars, first, kind, raw, lines, yaml_started, cleaned_lines,
                   result, manifests>>

SplitDone ==
    /\ pc = "split"
    /\ i > Len(manifests)
    /\ pc' = "done"
    /\ UNCHANGED <<i, analyzeVars, extractVars>>

----------------------------------------------------------------------------
(* A cleaner applied to its own result *)

\* _clean_dockerfile_response(_clean_dockerfile_response(x)), and the same for
\* _clean_k8s_response: the value returned becomes the response of a second call
Reapply ==
    /\ pc \in {"docker_cleaned", "k8s_cleaned"}
    /\ first = <<>>
    /\ first' = result
    /\ raw' = result[1]
    /\ result' = <<>>
    /\ lines' = <<>>
    /\ cleaned_lines' = <<>>
    /\ yaml_started' = FALSE
    /\ i' = 0
    /\ pc' = "response"
    /\ UNCHANGED <<analyzeVars, kind, manifests, saved>>

----------------------------------------------------------------------------
(* The analysis pipeline *)

InitAnalyze ==
    /\ pc = "start"
    /\ i = 0
    /\ dir = {}
    /\ pkgjson = <<>>
    /\ reqtxt = <<>>
    /\ analysis = InitialAnalysis
    /\ warnings = <<>>
    /\ prompt = <<>>
    /\ kind = "none"
    /\ raw = <<>>
    /\ lines = <<>>
    /\ yaml_started = FALSE
    /\ cleaned_lines = <<>>
    /\ result = <<>>
    /\ manifests = <<>>
    /\ saved = <<>>
    /\ first = <<>>

NextAnalyze ==
    \/ RaiseNotFound
    \/ Start
    \/ ProbeAbsent
    \/ ProbePresent
    \/ ProbePackageJson
    \/ ProbeRequirements
    \/ ScanCommon
    \/ CreateK8sPrompt
    \/ CreateK8sPromptRaises

SpecAnalyze == InitAnalyze /\ [][NextAnalyze]_vars

----------------------------------------------------------------------------
(* The response pipeline *)

InitExtract ==
    /\ pc = "response"
    /\ i = 0
    /\ dir = {}
    /\ pkgjson = <<>>
    /\ reqtxt = <<>>
    /\ analysis = InitialAnalysis
    /\ warnings = <<>>
    /\ prompt = <<>>
    /\ kind \in {"dockerfile", "k8s"}
    /\ raw \in Responses
    /\ lines = <<>>
    /\ yaml_started = FALSE
    /\ cleaned_lines = <<>>
    /\ result = <<>>
    /\ manifests = <<>>
    /\ saved = <<>>
    /\ first = <<>>

NextExtract ==
    \/ K8sStripFences
    \/ K8sScanLine
    \/ K8sReturn
    \/ DockerStripFences
    \/ DockerScanLine
    \/ DockerReturn
    \/ SplitManifests
    \/ NoManifests
    \/ BundleNotSaved
    \/ SplitStep
    \/ SplitDone
    \/ Reapply

SpecExtract == InitExtract /\ [][NextExtract]_vars

----------------------------------------------------------------------------
(* Claims about analyze_repository and the prompt *)

Returned == pc \in {"returned", "prompted", "prompt_raised"}

NoDuplicates(l) == \A a, b \in 1..Len(l) : l[a] = l[b] => a = b

\* C1: the languages sequence analyze_repository returns holds no language
\* tag twice, whatever package files the directory holds.
C1_NoDuplicateLanguages == Returned => NoDuplicates(analysis.languages)

\* the package.json that was read is a JSON object whose dependencies object
\* holds a name of the Node allow-list
NodeManifestMatches ==
    /\ pkgjson # <<>>
    /\ pkgjson[1].parse = "ok" /\ pkgjson[1].isobj
    /\ pkgjson[1].deps.t = "dict"
    /\ \E a \in 1..Len(pkgjson[1].deps.keys), b \in 1..Len(node_web_frameworks) :
           pkgjson[1].deps.keys[a] = node_web_frameworks[b]

\* the part of s before its first '==' (all of s when it has none)
BeforePin(s) ==
    LET at == {k \in 1..(Len(s) - 1) : s[k] = "=" /\ s[k + 1] = "="}
    IN  IF at = {} THEN s
        ELSE SubSeq(s, 1, (CHOOSE k \in at : \A m \in at : k <= m) - 1)

\* the bare package names of a requirements listing, lower-cased: one for each
\* line that is not blank and is not a '#' comment
ListedNames(ls) ==
    {Lower(BeforePin(Strip(ls[k]))) :
        k \in {m \in 1..Len(ls) : Strip(ls[m]) # <<>> /\ Strip(ls[m])[1] # "#"}}

PythonAllowList == {python_web_frameworks[k] : k \in 1..Len(python_web_frameworks)}

\* the requirements.txt that was read lists a name of the Python allow-list
RequirementsMatch ==
    /\ reqtxt # <<>>
    /\ reqtxt[1].readable
    /\ ListedNames(reqtxt[1].lines) \cap PythonAllowList # {}

\* the port the claim gives a matching requirements listing
ListedPort(ls) == IF fastapi \in ListedNames(ls) THEN 8000 ELSE 5000

\* C6, as claimed: a package.json whose dependencies hold an allow-listed name
\* gives isWebApp=true and defaultPort=3000, whatever else the directory holds.
C6_NodeWebPort3000 ==
    (Returned /\ NodeManifestMatches)
        => (analysis.is_web_app /\ analysis.default_port = 3000)

\* C6, amended: such a package.json gives isWebApp=true, and defaultPort=3000
\* unless the directory also holds a requirements.txt that lists a name of the
\* Python allow-list; then the port is the Python one (8000 with fastapi, else 5000).
C6_NodeWebPortUnlessPython ==
    (Returned /\ NodeManifestMatches)
        => /\ analysis.is_web_app
           /\ analysis.default_port =
                IF RequirementsMatch THEN ListedPort(reqtxt[1].lines) ELSE 3000

C6_Witness ==
    /\ Returned /\ NodeManifestMatches /\ RequirementsMatch
    /\ analysis.default_port = 5000
    /\ "node" = analysis.languages[1]

\* C7: a readable requirements listing with a name of the Python allow-list
\* (compared case-insensitively) gives isWebApp=true and defaultPort 8000 when
\* fastapi is listed and 5000 otherwise; one with no such name leaves isWebApp
\* and defaultPort as they were when the listing was read.
C7_RequirementsPort ==
    /\ [](  (Returned /\ RequirementsMatch)
            => /\ analysis.is_web_app
               /\ analysis.default_port = ListedPort(reqtxt[1].lines))
    /\ [][ (reqtxt = <<>> /\ reqtxt' # <<>> /\ reqtxt'[1].readable /\ ~RequirementsMatch')
            => /\ analysis'.is_web_app = analysis.is_web_app
               /\ analysis'.default_port = analysis.default_port ]_vars

C7_Witness ==
    /\ Returned /\ RequirementsMatch
    /\ Len(reqtxt[1].lines) = 2
    /\ reqtxt[1].lines[1] = <<" ","F","l","a","s","k","=","=","2">>
    /\ reqtxt[1].lines[2] = <<"#","f","l","a","s","k">>
    /\ analysis.default_port = 5000

\* the manifest that was read did not parse
PackageJsonFailed ==
    /\ pkgjson # <<>>
    /\ ~(pkgjson[1].parse = "ok" /\ pkgjson[1].isobj
         /\ pkgjson[1].deps.t \in {"absent", "dict"})

RequirementsFailed == reqtxt # <<>> /\ ~reqtxt[1].readable

\* the language tags of the package files in `present`, in table order
RECURSIVE LangsOf(_, _)
LangsOf(table, present) ==
    IF table = <<>> THEN <<>>
    ELSE (IF Head(table).file \in present THEN <<Head(table).lang>> ELSE <<>>)
         \o LangsOf(Tail(table), present)

\* C8: a package.json or requirements.txt that does not parse never aborts the
\* analysis: the profile is returned with the manifest's language tag and
\* presence flag, languages, structure and entry points are those the files
\* present give whatever the manifests hold, and one warning is printed for each
\* manifest that failed.
C8_ParseFailureIsNotFatal ==
    /\ pc = "raised" => (i = 0 /\ dir = {})
    /\ pc \in {"probe", "common"} => ENABLED NextAnalyze
    /\ Returned =>
        /\ PackageJsonFailed =>
              (InList("node", analysis.languages)
               /\ "package.json" \in analysis.package_managers)
        /\ RequirementsFailed =>
              (InList("python", analysis.languages)
               /\ "requirements.txt" \in analysis.package_managers)
        /\ analysis.languages = LangsOf(package_files, dir)
        /\ analysis.package_managers = dir \cap PackageFileNames
        /\ analysis.structure = dir \cap CommonFileNames
        /\ analysis.entry_points =
              SelectSeq(entry_files, LAMBDA f : f \in dir)
        /\ warnings = (IF PackageJsonFailed THEN <<"package.json">> ELSE <<>>)
                      \o (IF RequirementsFailed THEN <<"requirements.txt">> ELSE <<>>)

C8_Witness ==
    /\ Returned
    /\ PackageJsonFailed /\ RequirementsFailed
    /\ Len(warnings) = 2
    /\ analysis.entry_points = <<"app.py">>

\* C9: a directory holding none of the package files gives languages=[],
\* isWebApp=false and defaultPort=3000, and one holding none of the entry files
\* (so also one holding no file of either table) gives entryPoints=[]; every
\* returned profile has defaultPort in {3000, 5000, 8000}, and isWebApp=true
\* only when a parsed manifest lists an allow-listed name.
C9_EmptyAndPortInvariant ==
    Returned =>
        /\ dir \cap PackageFileNames = {} =>
              /\ analysis.languages = <<>>
              /\ ~analysis.is_web_app
              /\ analysis.default_port = 3000
        /\ (\A k \in 1..Len(entry_files) : entry_files[k] \notin dir) =>
              analysis.entry_points = <<>>
        /\ analysis.default_port \in {3000, 5000, 8000}
        /\ analysis.is_web_app => (NodeManifestMatches \/ RequirementsMatch)

C9_Witness ==
    /\ pc = "returned" /\ dir = {}
    /\ analysis.default_port = 3000 /\ analysis.languages = <<>>
    /\ analysis.entry_points = <<>> /\ ~analysis.is_web_app

\* the Node manifest declares a name: it parsed and its name is a string that
\* is not empty
DeclaresName ==
    /\ pkgjson # <<>> /\ ~PackageJsonFailed
    /\ pkgjson[1].name.t = "str" /\ pkgjson[1].name.v # <<>>

\* underscores and spaces replaced by hyphens, lower-cased
Hyphenated(v) ==
    [k \in 1..Len(v) |-> IF v[k] \in {"_", " "} THEN "-" ELSE LowerChar(v[k])]

\* C10: the prompt's application name is the Node manifest's name, hyphenated
\* and lower-cased, when the manifest declares one, and 'myapp' in every other
\* case, a parseable package.json without a name field included.
C10_AppNameOrSentinel ==
    pc = "prompted" =>
        prompt[1].app_name =
            IF DeclaresName THEN Hyphenated(pkgjson[1].name.v) ELSE myapp

----------------------------------------------------------------------------
(* Claims about the response cleaners and the manifest split *)

\* C2: the k-th surviving fragment (0-based) is emitted with ordinal k, so the
\* ordinals are 0..n-1 without a gap, and no two emitted fragments share a
\* (type, ordinal) name.
C2_SurvivorOrdinals ==
    pc \in {"split", "done"} =>
        /\ \A k \in 1..Len(saved) : saved[k].ordinal = k - 1
        /\ \A a, b \in 1..Len(saved) :
              (saved[a].type = saved[b].type /\ saved[a].ordinal = saved[b].ordinal)
                  => a = b

\* the trimmed line starts with 'apiVersion:' or '---'
StartsDocument(line) ==
    LET t == Strip(line) IN StartsWith(t, ApiVersion) \/ StartsWith(t, Separator)

\* the index of the first line of ls that starts a document, 0 when none does
FirstStart(ls) ==
    LET at == {k \in 1..Len(ls) : StartsDocument(ls[k])}
    IN  IF at = {} THEN 0 ELSE CHOOSE k \in at : \A m \in at : k <= m

\* the lines of ls from its first document start to line n
FromFirstStart(ls, n) ==
    IF FirstStart(SubSeq(ls, 1, n)) = 0 THEN <<>>
    ELSE SubSeq(ls, FirstStart(SubSeq(ls, 1, n)), n)

\* C3: the scan of _clean_k8s_response drops every line before the first one
\* whose trimmed form starts with 'apiVersion:' or '---', keeps that line and
\* every later one unchanged and in order, and never goes back to seeking: the
\* result is the suffix of the fence-stripped lines from the first such line,
\* and the empty string when there is none.
C3_K8sScanKeepsSuffix ==
    /\ []( /\ pc = "k8s_scan" =>
                /\ yaml_started <=> FirstStart(SubSeq(lines, 1, i - 1)) # 0
                /\ cleaned_lines = FromFirstStart(lines, i - 1)
           /\ (kind = "k8s" /\ result # <<>>) =>
                /\ result[1] = Join(FromFirstStart(lines, Len(lines)), NL)
                /\ FirstStart(lines) = 0 => result[1] = <<>> )
    /\ [][(pc = "k8s_scan" /\ yaml_started) => yaml_started']_vars

C3_Witness ==
    /\ pc = "k8s_cleaned"
    /\ Len(lines) = 3
    /\ FirstStart(lines) = 2
    /\ lines[2] = <<" ">> \o Separator
    /\ result[1] = Join(SubSeq(lines, 2, 3), NL)

\* every delimiter variant removed as a whole
WithoutFences(s) ==
    Replace(Replace(Replace(s, FenceDockerfile, <<>>), FenceDocker, <<>>), Fence, <<>>)

\* the lines of s trimmed, without the empty ones
TrimmedLines(s) ==
    LET ls == Split(s, NL)
    IN  SelectSeq([k \in 1..Len(ls) |-> Strip(ls[k])], LAMBDA l : l # <<>>)

IsFiller(line) == StartsWith(line, Here) \/ StartsWith(line, This)

\* C4: _clean_dockerfile_response removes every delimiter variant as a whole
\* (a line holding only a delimiter leaves nothing behind), and returns the
\* remaining non-empty lines that do not start with 'Here' or 'This', trimmed
\* and in order.
C4_DockerFencesRemovedWhole ==
    pc = "docker_cleaned" =>
        result[1] = Join(SelectSeq(TrimmedLines(WithoutFences(raw)),
                                   LAMBDA l : ~IsFiller(l)), NL)

\* the text holds no fence delimiter and no filler line
IsCleanText(s) ==
    /\ ~Contains(s, Fence)
    /\ \A k \in 1..Len(Split(s, NL)) : ~IsFiller(Strip(Split(s, NL)[k]))

\* the clean text of the artifact kind at hand
CleanInput ==
    /\ result # <<>>
    /\ IsCleanText(raw)
    /\ kind = "k8s" => (StartsWith(raw, ApiVersion) \/ StartsWith(raw, Separator))

\* C5, as claimed: either cleaner returns clean artifact text unchanged, blank
\* lines and leading indentation included.
C5_CleanTextUnchanged == CleanInput => result[1] = raw

\* C5, amended: _clean_k8s_response returns clean text unchanged;
\* _clean_dockerfile_response returns its lines trimmed with the blank lines
\* removed, which is the text unchanged exactly when the text is empty or has no
\* blank line and no line with leading or trailing whitespace.
C5_CleanTextUnchangedOrTrimmed ==
    CleanInput =>
        /\ kind = "k8s" => result[1] = raw
        /\ kind = "dockerfile" =>
              /\ result[1] = Join(TrimmedLines(raw), NL)
              /\ result[1] = raw <=>
                    \/ raw = <<>>
                    \/ \A k \in 1..Len(Split(raw, NL)) :
                          /\ Split(raw, NL)[k] # <<>>
                          /\ Strip(Split(raw, NL)[k]) = Split(raw, NL)[k]

C5_Witness ==
    /\ pc = "docker_cleaned"
    /\ CleanInput
    /\ Len(lines) = 3
    /\ lines[1] = <<" ","F","R","O","M"," ","a">>
    /\ lines[2] = <<>>
    /\ result[1] # raw

\* the lines of a cleaner's output: none for the empty string
OutputLines(s) == IF s = <<>> THEN <<>> ELSE Split(s, NL)

\* C11: both cleaners are idempotent: a cleaner applied to its own result
\* returns that result; a result never holds a triple backtick, and a
\* container-file result has no empty line and no line starting with 'Here' or
\* 'This'.
C11_CleanersIdempotent ==
    result # <<>> =>
        /\ ~Contains(result[1], Fence)
        /\ kind = "dockerfile" =>
              \A k \in 1..Len(OutputLines(result[1])) :
                  /\ OutputLines(result[1])[k] # <<>>
                  /\ ~IsFiller(OutputLines(result[1])[k])
        /\ first # <<>> => result = first

C11_Witness ==
    /\ pc = "docker_cleaned"
    /\ first # <<>>
    /\ result = first
    /\ Len(OutputLines(result[1])) = 2
    /\ Contains(result[1], <<BQ, BQ>>)

====
